---- MODULE Spec2Model ----
(***************************************************************************)
(* secretsnap CLI: encryption-mode resolution, key cache, bundle output    *)
(* guard and the cloud push/pull protocol.  One action per CLI invocation. *)
(* Byte strings are sequences of byte values; text is its ASCII codes.     *)
(*                                                                         *)
(* Spec runs the commands as registered in cmd/commands.go, with the pull  *)
(* command of cmd/audit.go; SpecFirstGen runs the pull command of          *)
(* cmd/pull.go instead; SpecOut adds bundles to another --out path;        *)
(* SpecPure calls determineMode, the crypto functions and the environment  *)
(* parsers on enumerated arguments; SpecCache and SpecInit interleave two  *)
(* invocations that save into the key cache, one system call per step.     *)
(*                                                                         *)
(* Left out: usage counters and upsell messages, .gitignore maintenance,   *)
(* and what the commands print besides their final error.                  *)
(***************************************************************************)
EXTENDS Integers, Sequences, FiniteSets, TLC

\* ------------------------------------------------------------------ bounds
MaxVersions == 2

\* ---------------------------------------------------------- fixed values
KeyLen == 32
KeyIDLen == 16
Perm0600 == 384
Perm0644 == 420

DirName == "app"
DefaultProjectConfig == [exists |-> TRUE, name |-> DirName, id |-> "local", mode |-> "local"]
NoProjectConfig == [exists |-> FALSE, name |-> "", id |-> "", mode |-> ""]

\* ------------------------------------------------------------ result values
Ok(v) == [ok |-> TRUE, val |-> v]
Err == [ok |-> FALSE, val |-> <<>>]

\* ------------------------------------------------- base64 (StdEncoding)
PadChar == 61

B64Char(i) ==
  IF i < 26 THEN 65 + i
  ELSE IF i < 52 THEN 97 + (i - 26)
  ELSE IF i < 62 THEN 48 + (i - 52)
  ELSE IF i = 62 THEN 43 ELSE 47

B64Index(c) ==
  IF c >= 65 /\ c <= 90 THEN c - 65
  ELSE IF c >= 97 /\ c <= 122 THEN c - 97 + 26
  ELSE IF c >= 48 /\ c <= 57 THEN c - 48 + 52
  ELSE IF c = 43 THEN 62
  ELSE IF c = 47 THEN 63 ELSE -1

RECURSIVE Encode(_)
Encode(b) ==
  IF Len(b) = 0 THEN <<>>
  ELSE IF Len(b) = 1 THEN
    << B64Char(b[1] \div 4), B64Char((b[1] % 4) * 16), PadChar, PadChar >>
  ELSE IF Len(b) = 2 THEN
    << B64Char(b[1] \div 4), B64Char((b[1] % 4) * 16 + (b[2] \div 16)),
       B64Char((b[2] % 16) * 4), PadChar >>
  ELSE
    << B64Char(b[1] \div 4), B64Char((b[1] % 4) * 16 + (b[2] \div 16)),
       B64Char((b[2] % 16) * 4 + (b[3] \div 64)), B64Char(b[3] % 64) >>
    \o Encode(SubSeq(b, 4, Len(b)))

\* decodes one quantum of four characters; final says whether padding may occur
DecodeQuantum(q, final) ==
  LET i1 == B64Index(q[1])
      i2 == B64Index(q[2])
      i3 == B64Index(q[3])
      i4 == B64Index(q[4])
  IN  IF i1 < 0 \/ i2 < 0 THEN Err
      ELSE IF q[3] = PadChar THEN
        IF final /\ q[4] = PadChar THEN Ok(<< i1 * 4 + (i2 \div 16) >>) ELSE Err
      ELSE IF i3 < 0 THEN Err
      ELSE IF q[4] = PadChar THEN
        IF final THEN Ok(<< i1 * 4 + (i2 \div 16), (i2 % 16) * 16 + (i3 \div 4) >>) ELSE Err
      ELSE IF i4 < 0 THEN Err
      ELSE Ok(<< i1 * 4 + (i2 \div 16), (i2 % 16) * 16 + (i3 \div 4), (i3 % 4) * 64 + i4 >>)

RECURSIVE Decode(_)
Decode(s) ==
  IF Len(s) = 0 THEN Ok(<<>>)
  ELSE IF Len(s) < 4 THEN Err
  ELSE
    LET head == DecodeQuantum(SubSeq(s, 1, 4), Len(s) = 4)
        rest == Decode(SubSeq(s, 5, Len(s)))
    IN  IF head.ok /\ rest.ok THEN Ok(head.val \o rest.val) ELSE Err

\* crypto/rand: the n-th value it can return, as len bytes
RandBytes(n, len) == [i \in 1..len |-> (n * 37 + i) % 256]

\* the encodings of the keys that occur, computed once
KeyPool == { RandBytes(n, KeyLen) : n \in 0..(MaxVersions + 3) }
EncodedKeys == [k \in KeyPool |-> Encode(k)]
DecodedKeys == [s \in { EncodedKeys[k] : k \in KeyPool } |-> Decode(s)]

EncodeToString(b) == IF b \in KeyPool THEN EncodedKeys[b] ELSE Encode(b)
DecodeString(s) == IF s \in DOMAIN DecodedKeys THEN DecodedKeys[s] ELSE Decode(s)

KeyToBase64(key) == EncodeToString(key)

KeyFromBase64(keyB64) ==
  LET key == DecodeString(keyB64)
  IN  IF ~key.ok THEN Err
      ELSE IF Len(key.val) # KeyLen THEN Err
      ELSE key

\* ------------------------------------------------------ envelope cipher
\* File and blob contents: raw bytes, or an age envelope that binds the
\* scrypt passphrase and carries the payload.  Bytes that are no well-formed,
\* authentic envelope (damaged or foreign data) are raw bytes to the reader.
Raw(bytes) == [kind |-> "raw", pass |-> <<>>, data |-> bytes]
Envelope(passphrase, bytes) == [kind |-> "age", pass |-> passphrase, data |-> bytes]
Garbage == Raw(<< 0 >>)
IsEmptyContent(c) == c.kind = "raw" /\ Len(c.data) = 0

EncryptWithPassphrase(data, passphrase) ==
  IF Len(passphrase) = 0 THEN Err
  ELSE Ok(Envelope(passphrase, data))

\* a decryption that does not authenticate the passphrase
DecryptUnauthenticated(encryptedData, passphrase) ==
  IF Len(passphrase) = 0 THEN Err
  ELSE IF encryptedData.kind # "age" THEN Err
  ELSE Ok(encryptedData.data)

DecryptWithPassphrase(encryptedData, passphrase) ==
  IF Len(passphrase) = 0 THEN Err
  ELSE IF encryptedData.kind # "age" THEN Err
  ELSE IF encryptedData.pass # passphrase THEN Err
  ELSE Ok(encryptedData.data)

\* an encryption that returns the payload as it is
EncryptWithKeyNone(data, key) ==
  IF Len(key) # KeyLen THEN Err
  ELSE Ok(Raw(data))

\* an encryption that derives the scrypt passphrase from half of the key
EncryptWithKeyPrefix(data, key) ==
  IF Len(key) # KeyLen THEN Err
  ELSE EncryptWithPassphrase(data, EncodeToString(SubSeq(key, 1, KeyIDLen)))

\* an encryption that hands the key bytes to scrypt without encoding them
EncryptWithKeyBytes(data, key) ==
  IF Len(key) # KeyLen THEN Err
  ELSE EncryptWithPassphrase(data, key)

EncryptWithKey(data, key) ==
  IF Len(key) # KeyLen THEN Err
  ELSE EncryptWithPassphrase(data, EncodeToString(key))

\* a decryption with a key that opens envelopes sealed with any secret
DecryptWithKeyUnchecked(encryptedData, key) ==
  IF Len(key) # KeyLen THEN Err
  ELSE IF encryptedData.kind # "age" THEN Err
  ELSE Ok(encryptedData.data)

\* a decryption with a key of any length
DecryptWithKeyAnyLength(encryptedData, key) ==
  DecryptWithPassphrase(encryptedData, EncodeToString(key))

DecryptWithKey(encryptedData, key) ==
  IF Len(key) # KeyLen THEN Err
  ELSE DecryptWithPassphrase(encryptedData, EncodeToString(key))

GenerateProjectKey(n) == RandBytes(n, KeyLen)
\* a generator that returns the same bytes on every call
GenerateDataKeyFixed(n) == GenerateProjectKey(1)

GenerateDataKey(n) == GenerateProjectKey(n)
GenerateKeyID(n) == EncodeToString(RandBytes(n, KeyIDLen))

\* ------------------------------------------------------------ mode resolver
\* a resolver that takes any config with mode "cloud" for a cloud project
determineModeAnyCloud(projectConfig, pass, passFile, passMode, push) ==
  IF push THEN "cloud"
  ELSE IF projectConfig.exists /\ projectConfig.mode = "cloud" THEN "cloud"
  ELSE IF pass # <<>> \/ passFile # "" \/ passMode THEN "passphrase"
  ELSE "local"

determineMode(projectConfig, pass, passFile, passMode, push) ==
  IF pass # <<>> \/ passFile # "" \/ passMode THEN "passphrase"
  ELSE IF push THEN "cloud"
  ELSE "local"

determineUnbundleMode(pass, passFile, passMode) ==
  IF pass # <<>> \/ passFile # "" \/ passMode THEN "passphrase"
  ELSE "local"

determineRunMode(pass, passFile, passMode) ==
  IF pass # <<>> \/ passFile # "" \/ passMode THEN "passphrase"
  ELSE "local"

\* ------------------------------------------------------------------ state
VARIABLES
  files,          \* working directory: path -> [exists, content, perm]
  projectConfig,  \* .secretsnap.json
  keysFile,       \* ~/.secretsnap/keys.json
  token,          \* ~/.secretsnap/token ("" when the file is absent or empty)
  cloud,          \* control plane and blob store
  globalConfig,   \* ~/.secretsnap/config.json, read by the first-generation pull
  last,           \* the most recent invocation: command, --version, exit status, last
                  \* message, the requests it issued in order, what it printed on stdout
  call,           \* one call of a pure function: its arguments and its result
  cache           \* ~/.secretsnap at system-call level, and the invocations saving
                  \* a key into it concurrently

vars == << files, projectConfig, keysFile, token, cloud, globalConfig, last, call, cache >>

EnvPath == ".env"
DefaultBundlePath == "secrets.envsnap"
PassFilePath == "pass.txt"
\* the .env file inside the directory os.MkdirTemp("", "secretsnap-*") creates
TempEnvPath == "/tmp/secretsnap-1/.env"
\* an --out path other than the default
CopyPath == "copy.envsnap"
Paths == {EnvPath, DefaultBundlePath, PassFilePath, TempEnvPath, CopyPath}

P1 == << 70, 61, 49 >>
P2 == << 70, 61, 50 >>
Plaintexts == {P1, P2}
Pass1 == << 112, 49 >>
Pass2 == << 112, 50 >>
\* passphrase arguments of one invocation, and what the user types at a prompt
Flags(pass, passFile, passMode, typed) ==
  [pass |-> pass, passFile |-> passFile, passMode |-> passMode, typed |-> typed]
NoPassFlags == Flags(<<>>, "", FALSE, <<>>)
BundleFlags == {NoPassFlags, Flags(Pass1, "", FALSE, <<>>), Flags(<<>>, PassFilePath, FALSE, <<>>),
                Flags(<<>>, "", TRUE, <<>>)}
UnbundleFlags == BundleFlags \cup {Flags(Pass2, PassFilePath, FALSE, <<>>)}

ProjectNames == {DirName, "web"}
ProjectID(name) == IF name = "web" THEN "proj-web" ELSE "proj-app"
CloudProjectIDs == {"proj-web"}
ProjectFlags == {"", "proj-web"}
\* --version: absent (0) or an explicit version number
VersionFlags == {0, 1}
GoodToken == "tok"
\* a token file overwritten with bytes the control plane never issued
BadToken == "corrupted-token"

NoFile == [exists |-> FALSE, content |-> Raw(<<>>), perm |-> 0]
NoKey == [present |-> FALSE, keyId |-> <<>>, keyB64 |-> <<>>]
NoLast == [cmd |-> "none", err |-> FALSE, stage |-> "", version |-> 0,
           reqs |-> <<>>, out |-> <<>>, sent |-> <<>>]
NoCall == [fn |-> "none", done |-> FALSE, cfg |-> NoProjectConfig, pass |-> <<>>,
           passFile |-> "", passMode |-> FALSE, push |-> FALSE, result |-> "",
           data |-> <<>>, secret |-> <<>>, enc |-> Err, dec |-> Err, env |-> <<>>]

\* ------------------------------------------------------------- file system
\* os.WriteFile: perm is used only when the file is created
WriteFile(fs, path, content, perm) ==
  [fs EXCEPT ![path] = IF @.exists THEN [@ EXCEPT !.content = content]
                       ELSE [exists |-> TRUE, content |-> content, perm |-> perm]]

\* ------------------------------------------------------------------ config
\* a load that writes the defaults over the file that is there
LoadProjectConfigReset(cfg) == DefaultProjectConfig

LoadProjectConfig(cfg) == IF ~cfg.exists THEN DefaultProjectConfig ELSE cfg

\* first-generation config: created with its defaults on first load
LoadConfig(cfg) ==
  IF ~cfg.exists THEN [exists |-> TRUE, mode |-> "local", project |-> "local"] ELSE cfg

LoadKeysConfig(kf) ==
  IF ~kf.exists THEN [exists |-> TRUE, projects |-> [n \in ProjectNames |-> NoKey]] ELSE kf

\* a lookup that never finds the key
GetProjectKeyMiss(kf, projectName) == Err

\* a lookup that makes up a key when the cache has none
GetProjectKeyDefault(kf, projectName) ==
  LET keys == LoadKeysConfig(kf)
  IN  IF keys.projects[projectName].present THEN Ok(keys.projects[projectName])
      ELSE Ok([present |-> TRUE, keyId |-> GenerateKeyID(1),
               keyB64 |-> KeyToBase64(GenerateProjectKey(1))])

GetProjectKey(kf, projectName) ==
  LET keys == LoadKeysConfig(kf)
  IN  IF projectName \in DOMAIN keys.projects /\ keys.projects[projectName].present
      THEN Ok(keys.projects[projectName]) ELSE Err

\* a save that writes the loaded document back without the new entry
SaveProjectKeyDrop(kf, projectName, key) == LoadKeysConfig(kf)

SaveProjectKey(kf, projectName, key) ==
  LET keys == LoadKeysConfig(kf)
  IN  [keys EXCEPT !.projects[projectName] = key]

GetPassphrase(fs, pass, passFile, typed) ==
  IF pass # <<>> THEN Ok(pass)
  ELSE IF passFile # "" THEN
    IF ~fs[passFile].exists THEN Err
    ELSE LET data == fs[passFile].content.data
         IN  IF Len(data) > 0 /\ data[Len(data)] = 10
             THEN Ok(SubSeq(data, 1, Len(data) - 1)) ELSE Ok(data)
  ELSE Ok(typed)

\* ----------------------------------------------- control plane, blob store
ValidToken(tok) == tok = GoodToken

\* POST /v1/projects
ServerCreateProject(c, tok, name) ==
  IF ~ValidToken(tok) THEN Err
  ELSE Ok([id |-> ProjectID(name), name |-> name])

\* POST /v1/bundles/push: the upload ticket
ServerPush(c, tok, projectID) ==
  IF ~ValidToken(tok) THEN Err
  ELSE IF projectID \notin c.projects THEN Err
  ELSE Ok([bundleID |-> Len(c.versions[projectID]) + 1, projectID |-> projectID])

\* POST /v1/bundles/finalize: the version record is committed
ServerFinalize(c, ticket, blob, wrappedKey) ==
  [c EXCEPT !.versions[ticket.projectID] = Append(@, [blob |-> blob, key |-> wrappedKey])]

\* GET /v1/bundles/pull?project_id=&version=|latest=true
ServerPull(c, tok, projectID, version) ==
  IF ~ValidToken(tok) THEN Err
  ELSE IF projectID \notin c.projects THEN Err
  ELSE LET vs == c.versions[projectID]
           n == IF version > 0 THEN version ELSE Len(vs)
       IN  IF n < 1 \/ n > Len(vs) THEN Err
           ELSE Ok([blob |-> vs[n].blob, dataKey |-> vs[n].key, version |-> n])

\* POST /v1/shares, GET /v1/audit
ServerShare(c, tok, projectID) == ValidToken(tok) /\ projectID \in c.projects
ServerAudit(c, tok, projectID) == ValidToken(tok) /\ projectID \in c.projects

\* api.Client: the request each call sends
NoBody == [req |-> "", projectID |-> "", size |-> 0, blob |-> Raw(<<>>), key |-> <<>>]
\* POST /v1/bundles/push carries the project id and the ciphertext's length
\* (the payload's length plus the envelope's fixed header)
BundlePushRequest(projectID, encryptedData) ==
  [NoBody EXCEPT !.req = "ticket", !.projectID = projectID, !.size = Len(encryptedData.data)]
\* PUT to the upload URL carries the bytes it is given
UploadToS3(encryptedData) == [NoBody EXCEPT !.req = "upload", !.blob = encryptedData]
\* POST /v1/bundles/finalize carries the data key in base64
BundleFinalizeRequest(wrappedKey) ==
  [NoBody EXCEPT !.req = "finalize", !.key = EncodeToString(wrappedKey)]
BundlePullVersion(c, tok, projectID, version) == ServerPull(c, tok, projectID, version)
\* a pull that asks for the first version
BundlePullFirst(c, tok, projectID) == BundlePullVersion(c, tok, projectID, 1)

BundlePull(c, tok, projectID) == BundlePullVersion(c, tok, projectID, 0)

\* --------------------------------------- key cache at system-call level
\* two invocations that each save a key for a project name of their own
Procs == {1, 2}
SaverName(p) == IF p = 1 THEN DirName ELSE "web"
SaverKey(p) == [present |-> TRUE, keyId |-> GenerateKeyID(p),
                keyB64 |-> KeyToBase64(GenerateProjectKey(p))]

\* a cache document: project name -> key entry; its length grows with the
\* number of entries
NoDoc == [n \in ProjectNames |-> NoKey]
DocSize(d) == Cardinality({ n \in ProjectNames : d[n].present })

\* file contents: nothing yet, one complete document, or bytes of two
\* documents written over each other
EmptyFile == [kind |-> "empty", doc |-> NoDoc, size |-> 0]
Doc(d) == [kind |-> "doc", doc |-> d, size |-> DocSize(d)]
Torn(n) == [kind |-> "torn", doc |-> NoDoc, size |-> n]

\* f.Write(data) at offset 0 of a file that holds c: a longer document
\* replaces what is there, a shorter one leaves the tail of the old bytes,
\* and documents with equally many entries may differ in length either way
WriteOutcomes(c, d) ==
  IF c.kind = "empty" \/ c = Doc(d) THEN { Doc(d) }
  ELSE IF DocSize(d) > c.size THEN { Doc(d) }
  ELSE IF DocSize(d) < c.size THEN { Torn(c.size) }
  ELSE { Doc(d), Torn(c.size) }

Inodes == 1..(2 * Cardinality(Procs))
IdleProc == [pc |-> "idle", name |-> "", checking |-> FALSE, final |-> FALSE,
             saving |-> NoDoc, fd |-> 0, ret |-> ""]
\* no invocation is saving: the state of the cache directory in the
\* specifications that run one command at a time
NoCache == [dir |-> [keys |-> 0, tmp |-> 0],
            inode |-> [i \in Inodes |-> EmptyFile],
            proc |-> [p \in Procs |-> IdleProc]]
\* both invocations about to call SaveProjectKey; keys.json is absent or
\* holds a document without entries
CacheStarts ==
  { [NoCache EXCEPT !.proc = [p \in Procs |-> [IdleProc EXCEPT !.pc = "stat", !.name = SaverName(p)]]],
    [NoCache EXCEPT !.proc = [p \in Procs |-> [IdleProc EXCEPT !.pc = "stat", !.name = SaverName(p)]],
                    !.dir.keys = 1, !.inode[1] = Doc(NoDoc)] }

\* an inode that no directory entry and no open file refers to
FreeInode ==
  CHOOSE i \in Inodes :
    /\ i \notin {cache.dir.keys, cache.dir.tmp} \cup { cache.proc[p].fd : p \in Procs }
    /\ \A j \in Inodes :
         j \notin {cache.dir.keys, cache.dir.tmp} \cup { cache.proc[p].fd : p \in Procs } => i <= j

\* LoadKeysConfig: os.Stat(keysFile); a missing file is created through
\* SaveKeysConfig with a document without entries
StatKeys(p) ==
  /\ cache.proc[p].pc = "stat"
  /\ cache' = IF cache.dir.keys = 0
              THEN [cache EXCEPT !.proc[p].pc = "open", !.proc[p].saving = NoDoc]
              ELSE [cache EXCEPT !.proc[p].pc = "read"]
  /\ UNCHANGED << files, projectConfig, keysFile, token, cloud, globalConfig, last, call >>

\* LoadKeysConfig: os.ReadFile and json.Unmarshal, then SaveProjectKey sets
\* its entry in the loaded document
ReadKeys(p) ==
  /\ cache.proc[p].pc = "read"
  /\ LET c == cache.inode[cache.dir.keys]
     IN  cache' =
           IF c.kind # "doc"
           THEN [cache EXCEPT !.proc[p].pc = "done", !.proc[p].ret = "err"]
           ELSE [cache EXCEPT !.proc[p].pc = "open", !.proc[p].final = TRUE,
                   !.proc[p].saving =
                      SaveProjectKey([exists |-> TRUE, projects |-> c.doc],
                                     cache.proc[p].name, SaverKey(p)).projects]
  /\ UNCHANGED << files, projectConfig, keysFile, token, cloud, globalConfig, last, call >>

\* SaveKeysConfig, os.WriteFile(tempFile, ...): open with O_CREATE|O_TRUNC
OpenTemp(p) ==
  /\ cache.proc[p].pc = "open"
  /\ LET i == IF cache.dir.tmp = 0 THEN FreeInode ELSE cache.dir.tmp
     IN  cache' = [cache EXCEPT !.dir.tmp = i, !.inode[i] = EmptyFile,
                                !.proc[p].fd = i, !.proc[p].pc = "write"]
  /\ UNCHANGED << files, projectConfig, keysFile, token, cloud, globalConfig, last, call >>

\* SaveKeysConfig, os.WriteFile(tempFile, ...): write and close
WriteTemp(p) ==
  /\ cache.proc[p].pc = "write"
  /\ \E c \in WriteOutcomes(cache.inode[cache.proc[p].fd], cache.proc[p].saving) :
       cache' = [cache EXCEPT !.inode[cache.proc[p].fd] = c,
                              !.proc[p].fd = 0, !.proc[p].pc = "rename"]
  /\ UNCHANGED << files, projectConfig, keysFile, token, cloud, globalConfig, last, call >>

\* SaveKeysConfig: os.Rename(tempFile, keysFile).  After the save of a new
\* cache file SaveProjectKey sets its entry and saves again; init, whose
\* lookup made the new file (or failed to), goes on to SaveProjectKey.
RenameTemp(p) ==
  /\ cache.proc[p].pc = "rename"
  /\ cache' =
       IF cache.proc[p].checking
       THEN [cache EXCEPT !.dir = IF cache.dir.tmp = 0 THEN @
                                  ELSE [keys |-> cache.dir.tmp, tmp |-> 0],
                          !.proc[p].pc = "stat", !.proc[p].checking = FALSE]
       ELSE IF cache.dir.tmp = 0
       THEN [cache EXCEPT !.proc[p].pc = "done", !.proc[p].ret = "err"]
       ELSE IF cache.proc[p].final
       THEN [cache EXCEPT !.dir = [keys |-> cache.dir.tmp, tmp |-> 0],
                          !.proc[p].pc = "done", !.proc[p].ret = "ok"]
       ELSE [cache EXCEPT !.dir = [keys |-> cache.dir.tmp, tmp |-> 0],
                          !.proc[p].pc = "open", !.proc[p].final = TRUE,
                          !.proc[p].saving =
                             SaveProjectKey([exists |-> TRUE, projects |-> NoDoc],
                                            cache.proc[p].name, SaverKey(p)).projects]
  /\ UNCHANGED << files, projectConfig, keysFile, token, cloud, globalConfig, last, call >>

\* two init invocations in the same directory, about to look the key up;
\* keys.json is absent or holds a document without entries
InitStarts ==
  { [NoCache EXCEPT !.proc = [p \in Procs |-> [IdleProc EXCEPT !.pc = "check", !.name = DirName]]],
    [NoCache EXCEPT !.proc = [p \in Procs |-> [IdleProc EXCEPT !.pc = "check", !.name = DirName]],
                    !.dir.keys = 1, !.inode[1] = Doc(NoDoc)] }

\* initCmd, config.GetProjectKey -> LoadKeysConfig: os.Stat(keysFile); a
\* missing file is created through SaveKeysConfig
InitStatKeys(p) ==
  /\ cache.proc[p].pc = "check"
  /\ cache' = IF cache.dir.keys = 0
              THEN [cache EXCEPT !.proc[p].pc = "open", !.proc[p].saving = NoDoc,
                                 !.proc[p].checking = TRUE]
              ELSE [cache EXCEPT !.proc[p].pc = "check-read"]
  /\ UNCHANGED << files, projectConfig, keysFile, token, cloud, globalConfig, last, call >>

\* initCmd, config.GetProjectKey: read and look the project name up.  With
\* a key init returns; without one, or when the file does not parse, it
\* generates a key and calls SaveProjectKey.
InitReadKeys(p) ==
  /\ cache.proc[p].pc = "check-read"
  /\ LET c == cache.inode[cache.dir.keys]
         existingKey == IF c.kind # "doc" THEN Err
                        ELSE GetProjectKey([exists |-> TRUE, projects |-> c.doc],
                                           cache.proc[p].name)
     IN  cache' = IF existingKey.ok
                  THEN [cache EXCEPT !.proc[p].pc = "done", !.proc[p].ret = "ok"]
                  ELSE [cache EXCEPT !.proc[p].pc = "stat"]
  /\ UNCHANGED << files, projectConfig, keysFile, token, cloud, globalConfig, last, call >>

\* ---------------------------------------------------------- initial state
InitSystem ==
  /\ files = [p \in Paths |->
                IF p = PassFilePath
                THEN [exists |-> TRUE, content |-> Raw(Pass1 \o << 10 >>), perm |-> Perm0600]
                ELSE NoFile]
  /\ projectConfig = NoProjectConfig
  /\ keysFile = [exists |-> FALSE, projects |-> [n \in ProjectNames |-> NoKey]]
  /\ token = ""
  /\ cloud = [projects |-> {}, versions |-> [p \in CloudProjectIDs |-> <<>>]]
  /\ globalConfig = [exists |-> FALSE, mode |-> "", project |-> ""]
  /\ last = NoLast

Init == InitSystem /\ call = NoCall /\ cache = NoCache

\* crypto/rand never returns key material that is already stored somewhere.
\* Project keys are the first values it returns and data keys the values after
\* them; a new key is the next value after the stored keys of its kind.
RECURSIVE StoredVersions(_)
StoredVersions(ps) ==
  IF ps = {} THEN 0
  ELSE LET p == CHOOSE q \in ps : TRUE
       IN  Len(cloud.versions[p]) + StoredVersions(ps \ {p})

ProjectKeysInUse == Cardinality({n \in ProjectNames : keysFile.projects[n].present})
DataKeysInUse == Cardinality(ProjectNames) + StoredVersions(CloudProjectIDs)

\* ------------------------------------------------------------ environment
\* the user creates or edits the plaintext file with an editor (mode 0644)
UserWrite ==
  \E data \in Plaintexts :
    /\ files' = [files EXCEPT ![EnvPath] =
                   [exists |-> TRUE, content |-> Raw(data),
                    perm |-> IF @.exists THEN @.perm ELSE Perm0644]]
    /\ last' = [NoLast EXCEPT !.cmd = "edit"]
    /\ UNCHANGED << projectConfig, keysFile, token, cloud, globalConfig, call, cache >>

\* the user deletes the plaintext file
UserRemove ==
  /\ files[EnvPath].exists
  /\ files' = [files EXCEPT ![EnvPath] = NoFile]
  /\ last' = [NoLast EXCEPT !.cmd = "rm"]
  /\ UNCHANGED << projectConfig, keysFile, token, cloud, globalConfig, call, cache >>

\* the bundle file is damaged on disk
Tamper ==
  /\ files[DefaultBundlePath].exists
  /\ files[DefaultBundlePath].content.kind = "age"
  /\ files' = [files EXCEPT ![DefaultBundlePath].content = Garbage]
  /\ last' = [NoLast EXCEPT !.cmd = "tamper"]
  /\ UNCHANGED << projectConfig, keysFile, token, cloud, globalConfig, call, cache >>

\* the token file is overwritten with other bytes
CorruptToken ==
  /\ token # BadToken
  /\ token' = BadToken
  /\ last' = [NoLast EXCEPT !.cmd = "corrupt-token"]
  /\ UNCHANGED << files, projectConfig, keysFile, cloud, globalConfig, call, cache >>

\* ------------------------------------------------------------------- init
initCmd ==
  LET cfg == LoadProjectConfig(projectConfig)
      existingKey == GetProjectKey(keysFile, cfg.name)
      projectKey == [present |-> TRUE, keyId |-> GenerateKeyID(ProjectKeysInUse + 1),
                     keyB64 |-> KeyToBase64(GenerateProjectKey(ProjectKeysInUse + 1))]
  IN  /\ projectConfig' = cfg
      /\ IF existingKey.ok
         THEN /\ keysFile' = LoadKeysConfig(keysFile)
              /\ last' = [NoLast EXCEPT !.cmd = "init", !.stage = "exists"]
         ELSE /\ keysFile' = SaveProjectKey(keysFile, cfg.name, projectKey)
              /\ last' = [NoLast EXCEPT !.cmd = "init", !.stage = "done"]
      /\ UNCHANGED << files, token, cloud, globalConfig, call, cache >>

\* ------------------------------------------------------------------ login
loginCmd ==
  \E accepted \in BOOLEAN :
    IF ~accepted
    THEN /\ last' = [NoLast EXCEPT !.cmd = "login", !.err = TRUE, !.stage = "login",
                                !.reqs = << "login" >>]
         /\ UNCHANGED << files, projectConfig, keysFile, token, cloud, globalConfig, call, cache >>
    ELSE /\ token' = GoodToken
         /\ projectConfig' = [LoadProjectConfig(projectConfig) EXCEPT !.mode = "cloud"]
         /\ last' = [NoLast EXCEPT !.cmd = "login", !.stage = "done", !.reqs = << "login" >>]
         /\ UNCHANGED << files, keysFile, cloud, globalConfig, call, cache >>

\* --------------------------------------------------------- project create
projectCreateCmd ==
  \E projectName \in {"web"} :
    LET cfg == LoadProjectConfig(projectConfig)
        project == ServerCreateProject(cloud, token, projectName)
    IN  IF token = "" \/ ~project.ok
        THEN /\ projectConfig' = cfg
             /\ last' = [NoLast EXCEPT !.cmd = "project-create", !.err = TRUE,
                                       !.stage = IF token = "" THEN "token" ELSE "request",
                                       !.reqs = IF token = "" THEN <<>> ELSE << "create" >>]
             /\ UNCHANGED << files, keysFile, token, cloud, globalConfig, call, cache >>
        ELSE /\ projectConfig' = [cfg EXCEPT !.name = project.val.name,
                                            !.id = project.val.id, !.mode = "cloud"]
             /\ cloud' = [cloud EXCEPT !.projects = @ \cup {project.val.id}]
             /\ last' = [NoLast EXCEPT !.cmd = "project-create", !.stage = "done",
                                       !.reqs = << "create" >>]
             /\ UNCHANGED << files, keysFile, token, globalConfig, call, cache >>

\* --------------------------------------------------------------- unbundle
\* unbundle secrets.envsnap [--out .env] with --force and passphrase flags
unbundle(force, flags) ==
  LET inputFile == DefaultBundlePath
      unbundleOutFile == EnvPath
      inv == [NoLast EXCEPT !.cmd = "unbundle"]
      encryptedData == files[inputFile].content
      cfg == LoadProjectConfig(projectConfig)
      mode == determineUnbundleMode(flags.pass, flags.passFile, flags.passMode)
      passphrase == GetPassphrase(files, flags.pass, flags.passFile, flags.typed)
      projectKey == GetProjectKey(keysFile, cfg.name)
      keyBytes == KeyFromBase64(projectKey.val.keyB64)
      secret == IF mode = "passphrase" THEN passphrase.ok
                ELSE projectKey.ok /\ keyBytes.ok
      decryptedData ==
        IF mode = "passphrase"
        THEN DecryptWithPassphrase(encryptedData, passphrase.val)
        ELSE DecryptWithKey(encryptedData, keyBytes.val)
  IN  IF ~files[inputFile].exists \/ IsEmptyContent(encryptedData)
      THEN /\ last' = [inv EXCEPT !.err = TRUE, !.stage = "input"]
           /\ UNCHANGED << files, projectConfig, keysFile, token, cloud, globalConfig, call, cache >>
      ELSE /\ projectConfig' = cfg
           /\ keysFile' = IF mode = "passphrase" THEN keysFile ELSE LoadKeysConfig(keysFile)
           /\ IF ~secret
              THEN /\ last' = [inv EXCEPT !.err = TRUE, !.stage = "secret"]
                   /\ files' = files
              ELSE IF ~decryptedData.ok
              THEN /\ last' = [inv EXCEPT !.err = TRUE, !.stage = "decrypt"]
                   /\ files' = files
              ELSE IF files[unbundleOutFile].exists /\ ~force
              THEN /\ last' = [inv EXCEPT !.err = TRUE, !.stage = "guard"]
                   /\ files' = files
              ELSE /\ files' = WriteFile(files, unbundleOutFile, Raw(decryptedData.val), Perm0600)
                   /\ last' = [inv EXCEPT !.stage = "done"]
           /\ UNCHANGED << token, cloud, globalConfig, call, cache >>

unbundleCmd == \E force \in BOOLEAN, flags \in UnbundleFlags : unbundle(force, flags)

\* ------------------------------------------------------------------- pull
\* what reaches the client: the response and the blob as stored, or damaged
Wire == {"ok", "down", "garbled", "otherkey", "notbase64"}

Received(resp, wire) ==
  [blob |-> IF wire = "garbled" THEN Garbage ELSE resp.blob,
   dataKey |-> IF wire = "otherkey" THEN EncodeToString(RandBytes(0, KeyLen))
               ELSE IF wire = "notbase64" THEN << 33 >>
               ELSE resp.dataKey,
   version |-> resp.version]

\* pull [--out .env] [--project P] [--version N] [--force]
pull(force, project, version, wire) ==
  LET pullOutFile == EnvPath
      cfg == LoadProjectConfig(projectConfig)
      pullProject == IF project = "" THEN cfg.id ELSE project
      inv == [NoLast EXCEPT !.cmd = "pull", !.version = version]
      resp == BundlePull(cloud, token, pullProject)
      got == Received(resp.val, wire)
      dataKey == DecodeString(got.dataKey)
      decryptedData == DecryptWithKey(got.blob, dataKey.val)
  IN  /\ projectConfig' = cfg
      /\ IF token = "" \/ pullProject = ""
         THEN /\ last' = [inv EXCEPT !.err = TRUE, !.stage = "input"]
              /\ files' = files
         ELSE IF ~resp.ok
         THEN /\ last' = [inv EXCEPT !.err = TRUE, !.stage = "request", !.reqs = << "pull" >>]
              /\ files' = files
         ELSE IF wire = "down"
         THEN /\ last' = [inv EXCEPT !.err = TRUE, !.stage = "download", !.reqs = << "pull", "download" >>]
              /\ files' = files
         ELSE IF ~dataKey.ok
         THEN /\ last' = [inv EXCEPT !.err = TRUE, !.stage = "key", !.reqs = << "pull", "download" >>]
              /\ files' = files
         ELSE IF ~decryptedData.ok
         THEN /\ last' = [inv EXCEPT !.err = TRUE, !.stage = "decrypt", !.reqs = << "pull", "download" >>]
              /\ files' = files
         ELSE IF files[pullOutFile].exists /\ ~force
         THEN /\ last' = [inv EXCEPT !.err = TRUE, !.stage = "guard", !.reqs = << "pull", "download" >>]
              /\ files' = files
         ELSE /\ files' = WriteFile(files, pullOutFile, Raw(decryptedData.val), Perm0600)
              /\ last' = [inv EXCEPT !.stage = "done", !.reqs = << "pull", "download" >>]
      /\ UNCHANGED << keysFile, token, cloud, globalConfig, call, cache >>

pullCmd ==
  \E force \in BOOLEAN, project \in ProjectFlags, version \in VersionFlags, wire \in Wire :
    pull(force, project, version, wire)

\* the first-generation pull command: pull [--out .env] [--project P]
pullV1(project, wire) ==
  LET pullOutFile == EnvPath
      cfg == LoadConfig(globalConfig)
      pullProject == IF project = "" THEN cfg.project ELSE project
      inv == [NoLast EXCEPT !.cmd = "pull-v1"]
      resp == BundlePull(cloud, token, pullProject)
      got == Received(resp.val, wire)
      dataKey == DecodeString(got.dataKey)
      decryptedData == DecryptWithKey(got.blob, dataKey.val)
  IN  /\ globalConfig' = cfg
      /\ IF token = "" \/ pullProject = ""
         THEN /\ last' = [inv EXCEPT !.err = TRUE, !.stage = "input"]
              /\ files' = files
         ELSE IF ~resp.ok
         THEN /\ last' = [inv EXCEPT !.err = TRUE, !.stage = "request", !.reqs = << "pull" >>]
              /\ files' = files
         ELSE IF wire = "down"
         THEN /\ last' = [inv EXCEPT !.err = TRUE, !.stage = "download", !.reqs = << "pull", "download" >>]
              /\ files' = files
         ELSE IF ~dataKey.ok
         THEN /\ last' = [inv EXCEPT !.err = TRUE, !.stage = "key", !.reqs = << "pull", "download" >>]
              /\ files' = files
         ELSE IF ~decryptedData.ok
         THEN /\ last' = [inv EXCEPT !.err = TRUE, !.stage = "decrypt", !.reqs = << "pull", "download" >>]
              /\ files' = files
         ELSE /\ files' = WriteFile(files, pullOutFile, Raw(decryptedData.val), Perm0600)
              /\ last' = [inv EXCEPT !.stage = "done", !.reqs = << "pull", "download" >>]
      /\ UNCHANGED << projectConfig, keysFile, token, cloud, call, cache >>

pullCmdV1 == \E project \in ProjectFlags, wire \in Wire : pullV1(project, wire)

\* -------------------------------------------------------------------- run
\* how the child command ends: exit status 0, a non-zero exit status, or
\* it cannot be started
ChildOutcomes == {"ok", "exit", "nostart"}

\* run secrets.envsnap -- CMD, with passphrase flags
run(flags, child) ==
  LET bundleFile == DefaultBundlePath
      inv == [NoLast EXCEPT !.cmd = "run"]
      encryptedData == files[bundleFile].content
      cfg == LoadProjectConfig(projectConfig)
      mode == determineRunMode(flags.pass, flags.passFile, flags.passMode)
      passphrase == GetPassphrase(files, flags.pass, flags.passFile, flags.typed)
      projectKey == GetProjectKey(keysFile, cfg.name)
      keyBytes == KeyFromBase64(projectKey.val.keyB64)
      secret == IF mode = "passphrase" THEN passphrase.ok
                ELSE projectKey.ok /\ keyBytes.ok
      decryptedData ==
        IF mode = "passphrase"
        THEN DecryptWithPassphrase(encryptedData, passphrase.val)
        ELSE DecryptWithKey(encryptedData, keyBytes.val)
  IN  /\ files' = files
      /\ IF ~files[bundleFile].exists \/ IsEmptyContent(encryptedData)
         THEN /\ last' = [inv EXCEPT !.err = TRUE, !.stage = "input"]
              /\ UNCHANGED << projectConfig, keysFile >>
         ELSE /\ projectConfig' = cfg
              /\ keysFile' = IF mode = "passphrase" THEN keysFile ELSE LoadKeysConfig(keysFile)
              /\ IF ~secret
                 THEN last' = [inv EXCEPT !.err = TRUE, !.stage = "secret"]
                 ELSE IF ~decryptedData.ok
                 THEN last' = [inv EXCEPT !.err = TRUE, !.stage = "decrypt"]
                 ELSE IF child # "ok"
                 THEN last' = [inv EXCEPT !.err = TRUE, !.stage = "child"]
                 ELSE last' = [inv EXCEPT !.stage = "done"]
      /\ UNCHANGED << token, cloud, globalConfig, call, cache >>

runCmd == \E flags \in UnbundleFlags, child \in ChildOutcomes : run(flags, child)

\* run.Runner: NewRunner(envData).Run(args), envData being decrypted data.
\* The deferred os.RemoveAll(tempDir) does not run when Run leaves through
\* os.Exit with the child's exit status.
RunnerRun(envData, child) ==
  /\ files' = IF child = "exit"
              THEN WriteFile(files, TempEnvPath, Raw(envData), Perm0600)
              ELSE files
  /\ last' = [NoLast EXCEPT !.cmd = "runner", !.err = (child # "ok"),
                            !.stage = IF child = "ok" THEN "done" ELSE "child"]
  /\ UNCHANGED << projectConfig, keysFile, token, cloud, globalConfig, call, cache >>

RunnerRunCmd == \E envData \in Plaintexts, child \in ChildOutcomes : RunnerRun(envData, child)

\* ------------------------------------------------------------- key export
\* a check that lets every export through
ExportRefusedNever(cfg, accept) == FALSE

\* exporting from a cloud project needs --i-accept-risk
ExportRefused(cfg, accept) == cfg.mode = "cloud" /\ ~accept

\* key export [--project NAME] [--i-accept-risk]
keyExport(project, accept) ==
  LET cfg == LoadProjectConfig(projectConfig)
      projectName == IF project = "" THEN cfg.name ELSE project
      projectKey == GetProjectKey(keysFile, projectName)
      inv == [NoLast EXCEPT !.cmd = "key-export"]
  IN  /\ projectConfig' = cfg
      /\ IF ExportRefused(cfg, accept)
         THEN /\ last' = [inv EXCEPT !.err = TRUE, !.stage = "refused"]
              /\ keysFile' = keysFile
         ELSE /\ keysFile' = LoadKeysConfig(keysFile)
              /\ IF ~projectKey.ok
                 THEN last' = [inv EXCEPT !.err = TRUE, !.stage = "secret"]
                 ELSE last' = [inv EXCEPT !.stage = "done", !.out = projectKey.val.keyB64]
      /\ UNCHANGED << files, token, cloud, globalConfig, call, cache >>

keyExportCmd ==
  \E project \in {""} \cup ProjectNames, accept \in BOOLEAN : keyExport(project, accept)

\* ------------------------------------------------------------------ share
Roles == {"read", "owner"}

\* share --user U [--role R] [--project P]
share(project, role) ==
  LET cfg == LoadProjectConfig(projectConfig)
      shareProject == IF project = "" THEN cfg.id ELSE project
      inv == [NoLast EXCEPT !.cmd = "share"]
  IN  /\ projectConfig' = cfg
      /\ IF token = ""
         THEN last' = [inv EXCEPT !.err = TRUE, !.stage = "token"]
         ELSE IF shareProject = ""
         THEN last' = [inv EXCEPT !.err = TRUE, !.stage = "project"]
         ELSE IF role # "read" /\ role # "write"
         THEN last' = [inv EXCEPT !.err = TRUE, !.stage = "role"]
         ELSE IF ~ServerShare(cloud, token, shareProject)
         THEN last' = [inv EXCEPT !.err = TRUE, !.stage = "request", !.reqs = << "share" >>]
         ELSE last' = [inv EXCEPT !.stage = "done", !.reqs = << "share" >>]
      /\ UNCHANGED << files, keysFile, token, cloud, globalConfig, call, cache >>

shareCmd == \E project \in ProjectFlags, role \in Roles : share(project, role)

\* ------------------------------------------------------------------ audit
\* audit [--project P]
audit(project) ==
  LET cfg == LoadConfig(globalConfig)
      auditProject == IF project = "" THEN cfg.project ELSE project
      inv == [NoLast EXCEPT !.cmd = "audit"]
  IN  /\ globalConfig' = cfg
      /\ IF token = ""
         THEN last' = [inv EXCEPT !.err = TRUE, !.stage = "token"]
         ELSE IF auditProject = ""
         THEN last' = [inv EXCEPT !.err = TRUE, !.stage = "project"]
         ELSE IF ~ServerAudit(cloud, token, auditProject)
         THEN last' = [inv EXCEPT !.err = TRUE, !.stage = "request", !.reqs = << "audit" >>]
         ELSE last' = [inv EXCEPT !.stage = "done", !.reqs = << "audit" >>]
      /\ UNCHANGED << files, projectConfig, keysFile, token, cloud, call, cache >>

auditCmd == \E project \in ProjectFlags : audit(project)

\* ----------------------------------------------------------------- bundle
\* failures of the three push steps: none, or the step that fails
PushFailures == {"none", "ticket", "upload", "finalize"}

\* a push that finalizes before it uploads
PushOrderFinalizeFirst == << "ticket", "finalize", "upload" >>

\* the requests of one push, in the order the command issues them
PushOrder == << "ticket", "upload", "finalize" >>
\* the requests issued when the n-th step is the last one reached
Issued(n) == SubSeq(PushOrder, 1, n)

\* bundle .env with --force, passphrase flags, --push, --project and --out
bundle(force, flags, push, project, out) ==
  LET inputFile == EnvPath
      bundleOutFile == out
      inv == [NoLast EXCEPT !.cmd = "bundle"]
      data == files[inputFile].content.data
      cfg == LoadProjectConfig(projectConfig)
      mode == determineMode(cfg, flags.pass, flags.passFile, flags.passMode, push)
      passphrase == GetPassphrase(files, flags.pass, flags.passFile, flags.typed)
      projectKey == GetProjectKey(keysFile, cfg.name)
      keyBytes == KeyFromBase64(projectKey.val.keyB64)
      projectID == IF project = "" THEN cfg.id ELSE project
      dataKey == GenerateDataKey(DataKeysInUse + 1)
      pushResp == ServerPush(cloud, token, projectID)
      secret == IF mode = "passphrase" THEN passphrase.ok
                ELSE projectKey.ok /\ keyBytes.ok
      encryptedData ==
        IF mode = "passphrase" THEN EncryptWithPassphrase(data, passphrase.val)
        ELSE IF mode = "cloud" THEN EncryptWithKey(data, dataKey)
        ELSE EncryptWithKey(data, keyBytes.val)
      requests == << BundlePushRequest(projectID, encryptedData.val),
                     UploadToS3(encryptedData.val),
                     BundleFinalizeRequest(dataKey) >>
  IN  IF ~files[inputFile].exists \/ IsEmptyContent(files[inputFile].content)
      THEN /\ last' = [inv EXCEPT !.err = TRUE, !.stage = "input"]
           /\ UNCHANGED << files, projectConfig, keysFile, token, cloud, globalConfig, call, cache >>
      ELSE
        /\ projectConfig' = cfg
        /\ UNCHANGED << token, globalConfig, call, cache >>
        /\ IF mode = "cloud"
           THEN
             /\ keysFile' = keysFile
             /\ IF ~push
                THEN /\ last' = [inv EXCEPT !.err = TRUE, !.stage = "push-flag"]
                     /\ UNCHANGED << files, cloud >>
                ELSE IF token = ""
                THEN /\ last' = [inv EXCEPT !.err = TRUE, !.stage = "token"]
                     /\ UNCHANGED << files, cloud >>
                ELSE IF projectID = "" \/ projectID = "local"
                THEN /\ last' = [inv EXCEPT !.err = TRUE, !.stage = "project"]
                     /\ UNCHANGED << files, cloud >>
                ELSE
                  \E fail \in PushFailures :
                     IF ~pushResp.ok \/ fail = "ticket"
                     THEN /\ last' = [inv EXCEPT !.err = TRUE, !.stage = "ticket",
                                                 !.reqs = Issued(1),
                                                 !.sent = SubSeq(requests, 1, 1)]
                          /\ UNCHANGED << files, cloud >>
                     ELSE IF fail # "none"
                     THEN /\ last' = [inv EXCEPT !.err = TRUE, !.stage = fail,
                                                 !.reqs = Issued(IF fail = "upload" THEN 2 ELSE 3),
                                                 !.sent = SubSeq(requests, 1, IF fail = "upload" THEN 2 ELSE 3)]
                          /\ UNCHANGED << files, cloud >>
                     ELSE
                       /\ Len(cloud.versions[projectID]) < MaxVersions
                       /\ cloud' = ServerFinalize(cloud, pushResp.val, encryptedData.val,
                                                  EncodeToString(dataKey))
                       /\ files' = IF bundleOutFile # DefaultBundlePath
                                   THEN WriteFile(files, bundleOutFile, encryptedData.val, Perm0644)
                                   ELSE files
                       /\ last' = [inv EXCEPT !.stage = "pushed", !.reqs = Issued(3),
                                              !.sent = requests]
           ELSE
             /\ keysFile' = IF mode = "passphrase" THEN keysFile ELSE LoadKeysConfig(keysFile)
             /\ cloud' = cloud
             /\ IF ~secret
                THEN /\ last' = [inv EXCEPT !.err = TRUE, !.stage = "secret"]
                     /\ files' = files
                ELSE IF ~encryptedData.ok
                THEN /\ last' = [inv EXCEPT !.err = TRUE, !.stage = "encrypt"]
                     /\ files' = files
                ELSE IF files[bundleOutFile].exists /\ ~force
                THEN /\ last' = [inv EXCEPT !.err = TRUE, !.stage = "guard"]
                     /\ files' = files
                ELSE /\ files' = WriteFile(files, bundleOutFile, encryptedData.val, Perm0644)
                     /\ last' = [inv EXCEPT !.stage = "done"]

bundleCmd ==
  \E force \in BOOLEAN, flags \in BundleFlags, push \in BOOLEAN, project \in ProjectFlags :
    bundle(force, flags, push, project, DefaultBundlePath)

\* bundle .env --out copy.envsnap
bundleOutCmd ==
  \E force \in BOOLEAN, flags \in BundleFlags, push \in BOOLEAN, project \in ProjectFlags :
    bundle(force, flags, push, project, CopyPath)

\* ---------------------------------------------- the command-line program
Next ==
  \/ UserWrite
  \/ UserRemove
  \/ Tamper
  \/ CorruptToken
  \/ initCmd
  \/ loginCmd
  \/ projectCreateCmd
  \/ bundleCmd
  \/ unbundleCmd
  \/ pullCmd
  \/ shareCmd
  \/ keyExportCmd
  \/ runCmd

Spec == Init /\ [][Next]_vars

\* the build whose pull and audit commands are the first-generation ones,
\* which read the global config, and which runs commands through run.Runner
NextFirstGen ==
  \/ UserWrite
  \/ UserRemove
  \/ loginCmd
  \/ projectCreateCmd
  \/ bundleCmd
  \/ pullCmdV1
  \/ auditCmd
  \/ RunnerRunCmd

SpecFirstGen == Init /\ [][NextFirstGen]_vars

\* bundles written to the default path and to another --out path
NextOut ==
  \/ UserWrite
  \/ initCmd
  \/ loginCmd
  \/ projectCreateCmd
  \/ bundleCmd
  \/ bundleOutCmd

SpecOut == Init /\ [][NextOut]_vars

\* ------------------------------------------------------ environment text
\* bytes with a meaning in a .env text
Newline == 10
Hash == 35
Equals == 61
Quote == 34
\* unicode.IsSpace within ASCII
WhiteSpace == {9, 10, 11, 12, 13, 32}

\* strings.Split(s, "\n")
RECURSIVE SplitLines(_)
SplitLines(s) ==
  IF \A i \in 1..Len(s) : s[i] # Newline THEN << s >>
  ELSE LET i == CHOOSE j \in 1..Len(s) :
                  s[j] = Newline /\ \A k \in 1..(j - 1) : s[k] # Newline
       IN  << SubSeq(s, 1, i - 1) >> \o SplitLines(SubSeq(s, i + 1, Len(s)))

RECURSIVE TrimSpace(_)
TrimSpace(s) ==
  IF s = <<>> THEN s
  ELSE IF s[1] \in WhiteSpace THEN TrimSpace(Tail(s))
  ELSE IF s[Len(s)] \in WhiteSpace THEN TrimSpace(SubSeq(s, 1, Len(s) - 1))
  ELSE s

HasPrefix(s, c) == Len(s) > 0 /\ s[1] = c
Contains(s, c) == \E i \in 1..Len(s) : s[i] = c
\* strings.SplitN(s, "=", 2) of a line that contains "="
SplitN2(s) ==
  LET i == CHOOSE j \in 1..Len(s) : s[j] = Equals /\ \A k \in 1..(j - 1) : s[k] # Equals
  IN  << SubSeq(s, 1, i - 1), SubSeq(s, i + 1, Len(s)) >>

\* cmd/run.go parseEnvFile: the kept lines go to the child as they are
RECURSIVE parseEnvLines(_)
parseEnvLines(lines) ==
  IF lines = <<>> THEN <<>>
  ELSE LET line == TrimSpace(Head(lines))
           rest == parseEnvLines(Tail(lines))
       IN  IF line = <<>> \/ HasPrefix(line, Hash) THEN rest
           ELSE IF Contains(line, Equals) THEN << line >> \o rest
           ELSE rest

parseEnvFile(data) == parseEnvLines(SplitLines(data))

\* run.Runner.parseEnvFile: key and value are trimmed and a value between
\* double quotes loses them.  bufio.Scanner yields the lines of
\* strings.Split without a last empty one and without a trailing "\r",
\* which TrimSpace and the skipping of empty lines make the same.
RECURSIVE RunnerParseEnvLines(_)
RunnerParseEnvLines(lines) ==
  IF lines = <<>> THEN <<>>
  ELSE LET line == TrimSpace(Head(lines))
           rest == RunnerParseEnvLines(Tail(lines))
       IN  IF line = <<>> \/ HasPrefix(line, Hash) THEN rest
           ELSE IF ~Contains(line, Equals) THEN rest
           ELSE LET parts == SplitN2(line)
                    key == TrimSpace(parts[1])
                    v == TrimSpace(parts[2])
                    value == IF Len(v) >= 2 /\ v[1] = Quote /\ v[Len(v)] = Quote
                             THEN SubSeq(v, 2, Len(v) - 1) ELSE v
                IN  << key \o << Equals >> \o value >> \o rest

RunnerParseEnvFile(data) == RunnerParseEnvLines(SplitLines(data))

\* decrypted texts: A=1, a comment, a blank line and a quoted value, a
\* quoted value without final newline, padding and a line without "=",
\* a value in single quotes, the empty text
EnvTexts ==
  { << 65, 61, 49, 10 >>,
    << 35, 32, 99, 10, 10, 65, 61, 49, 10, 66, 61, 34, 120, 34, 10 >>,
    << 65, 61, 34, 49, 34 >>,
    << 32, 32, 65, 61, 49, 32, 32, 10, 110, 111, 10 >>,
    << 65, 61, 39, 49, 39, 10 >>,
    <<>> }

EnvCalls ==
  { [NoCall EXCEPT !.fn = f, !.data = d] :
      f \in {"parseEnvFile", "Runner.parseEnvFile"}, d \in EnvTexts }

\* ------------------------------------------- pure functions, one call each
ConfigCases ==
  { NoProjectConfig,
    [exists |-> TRUE, name |-> DirName, id |-> "local", mode |-> "local"],
    [exists |-> TRUE, name |-> DirName, id |-> "proj-123", mode |-> "cloud"],
    [exists |-> TRUE, name |-> DirName, id |-> "", mode |-> "cloud"],
    [exists |-> TRUE, name |-> DirName, id |-> "local", mode |-> "cloud"],
    [exists |-> TRUE, name |-> DirName, id |-> "proj-123", mode |-> ""],
    [exists |-> TRUE, name |-> DirName, id |-> "proj-123", mode |-> "unknown"] }

DataCases == { <<>>, P1, P2 }
PassphraseCases == { <<>>, Pass1, Pass2 }
KeyCases == { RandBytes(1, KeyLen), RandBytes(2, KeyLen), RandBytes(1, KeyIDLen),
              RandBytes(1, KeyLen + 1) }

ModeCalls ==
  { [NoCall EXCEPT !.fn = "determineMode", !.cfg = c, !.pass = p, !.passFile = f,
                   !.passMode = m, !.push = s] :
      c \in ConfigCases, p \in {<<>>, Pass1}, f \in {"", PassFilePath},
      m \in BOOLEAN, s \in BOOLEAN }

CipherCalls ==
  { [NoCall EXCEPT !.fn = "passphrase", !.data = d, !.secret = p] :
      d \in DataCases, p \in PassphraseCases }
  \cup
  { [NoCall EXCEPT !.fn = "key", !.data = d, !.secret = k] :
      d \in DataCases, k \in KeyCases }
  \cup
  { [NoCall EXCEPT !.fn = f, !.data = d, !.secret = k] :
      f \in {"key-passphrase", "passphrase-key"}, d \in DataCases, k \in KeyCases }

InitPure ==
  /\ InitSystem
  /\ call \in ModeCalls \cup CipherCalls \cup EnvCalls
  /\ cache = NoCache

CallDetermineMode ==
  /\ call.fn = "determineMode" /\ ~call.done
  /\ call' = [call EXCEPT !.done = TRUE,
                !.result = determineMode(call.cfg, call.pass, call.passFile,
                                         call.passMode, call.push)]
  /\ UNCHANGED << files, projectConfig, keysFile, token, cloud, globalConfig, last, cache >>

CallPassphraseRoundTrip ==
  /\ call.fn = "passphrase" /\ ~call.done
  /\ LET enc == EncryptWithPassphrase(call.data, call.secret)
     IN  call' = [call EXCEPT !.done = TRUE, !.enc = enc,
                    !.dec = IF enc.ok THEN DecryptWithPassphrase(enc.val, call.secret) ELSE Err]
  /\ UNCHANGED << files, projectConfig, keysFile, token, cloud, globalConfig, last, cache >>

CallKeyRoundTrip ==
  /\ call.fn = "key" /\ ~call.done
  /\ LET enc == EncryptWithKey(call.data, call.secret)
     IN  call' = [call EXCEPT !.done = TRUE, !.enc = enc,
                    !.dec = IF enc.ok THEN DecryptWithKey(enc.val, call.secret) ELSE Err]
  /\ UNCHANGED << files, projectConfig, keysFile, token, cloud, globalConfig, last, cache >>

\* EncryptWithKey, then DecryptWithPassphrase with the key in base64
CallKeyThenPassphrase ==
  /\ call.fn = "key-passphrase" /\ ~call.done
  /\ LET enc == EncryptWithKey(call.data, call.secret)
     IN  call' = [call EXCEPT !.done = TRUE, !.enc = enc,
                    !.dec = IF enc.ok
                            THEN DecryptWithPassphrase(enc.val, EncodeToString(call.secret))
                            ELSE Err]
  /\ UNCHANGED << files, projectConfig, keysFile, token, cloud, globalConfig, last, cache >>

\* EncryptWithPassphrase with the key in base64, then DecryptWithKey
CallPassphraseThenKey ==
  /\ call.fn = "passphrase-key" /\ ~call.done
  /\ LET enc == EncryptWithPassphrase(call.data, EncodeToString(call.secret))
     IN  call' = [call EXCEPT !.done = TRUE, !.enc = enc,
                    !.dec = IF enc.ok THEN DecryptWithKey(enc.val, call.secret) ELSE Err]
  /\ UNCHANGED << files, projectConfig, keysFile, token, cloud, globalConfig, last, cache >>

CallParseEnvFile ==
  /\ call.fn = "parseEnvFile" /\ ~call.done
  /\ call' = [call EXCEPT !.done = TRUE, !.env = parseEnvFile(call.data)]
  /\ UNCHANGED << files, projectConfig, keysFile, token, cloud, globalConfig, last, cache >>

CallRunnerParseEnvFile ==
  /\ call.fn = "Runner.parseEnvFile" /\ ~call.done
  /\ call' = [call EXCEPT !.done = TRUE, !.env = RunnerParseEnvFile(call.data)]
  /\ UNCHANGED << files, projectConfig, keysFile, token, cloud, globalConfig, last, cache >>

NextPure ==
  \/ CallParseEnvFile
  \/ CallRunnerParseEnvFile
  \/ CallDetermineMode
  \/ CallPassphraseRoundTrip
  \/ CallKeyRoundTrip
  \/ CallKeyThenPassphrase
  \/ CallPassphraseThenKey

SpecPure == InitPure /\ [][NextPure]_vars

\* two concurrent invocations of SaveProjectKey, one system call per step
InitCache == InitSystem /\ call = NoCall /\ cache \in CacheStarts

NextCache ==
  \E p \in Procs :
    \/ StatKeys(p)
    \/ ReadKeys(p)
    \/ OpenTemp(p)
    \/ WriteTemp(p)
    \/ RenameTemp(p)

SpecCache == InitCache /\ [][NextCache]_vars

\* two concurrent init invocations in one directory, one system call per step
InitInit == InitSystem /\ call = NoCall /\ cache \in InitStarts

NextInit ==
  \E p \in Procs :
    \/ InitStatKeys(p)
    \/ InitReadKeys(p)
    \/ StatKeys(p)
    \/ ReadKeys(p)
    \/ OpenTemp(p)
    \/ WriteTemp(p)
    \/ RenameTemp(p)

SpecInit == InitInit /\ [][NextInit]_vars

\* ================================================================= claims
Modes == {"local", "passphrase", "cloud"}
ModeCallDone == call.fn = "determineMode" /\ call.done
AnyPassFlag(c) == c.pass # <<>> \/ c.passFile # "" \/ c.passMode
\* a config that names a cloud project: mode "cloud", id neither "" nor "local"
ValidCloudConfig(cfg) == cfg.exists /\ cfg.mode = "cloud" /\ cfg.id # "" /\ cfg.id # "local"
Versions(p) == cloud.versions[p]

\* C1: whenever the push flag is set, the resolved mode is Cloud, whatever
\* the project config and the passphrase flags are.
C1_PushAlwaysCloud ==
  (ModeCallDone /\ call.push) => call.result = "cloud"

\* C2: without the push flag, a project config with mode "cloud" and a
\* project id that is neither empty nor "local" resolves to Cloud, also when
\* a passphrase flag is set.
C2_CloudConfigWins ==
  (ModeCallDone /\ ~call.push /\ ValidCloudConfig(call.cfg)) => call.result = "cloud"

\* C3: without the push flag and without a valid cloud config, the mode is
\* Passphrase if any of --pass, --pass-file, --pass-mode is set and Local
\* otherwise; every result is one of Local, Passphrase, Cloud.
C3_FallbackMode ==
  ModeCallDone =>
    /\ call.result \in Modes
    /\ (~call.push /\ ~ValidCloudConfig(call.cfg)) =>
         call.result = IF AnyPassFlag(call) THEN "passphrase" ELSE "local"

\* C3 happens: a cloud config whose id is the sentinel "local", --pass-mode
\* set, no push, resolved to Passphrase
C3_Witness ==
  /\ ModeCallDone /\ ~call.push /\ call.passMode
  /\ call.cfg.exists /\ call.cfg.mode = "cloud" /\ call.cfg.id = "local"
  /\ call.result = "passphrase"

\* C4: init for a project name that already has a key in the cache succeeds,
\* draws no new key and leaves the cached keyId and keyB64 as they were.
C4_InitIdempotent ==
  [][ LET name == LoadProjectConfig(projectConfig).name
      IN  (last'.cmd = "init" /\ keysFile.exists /\ keysFile.projects[name].present) =>
            /\ ~last'.err
            /\ ProjectKeysInUse' = ProjectKeysInUse
            /\ keysFile'.projects = keysFile.projects ]_vars

\* C4 happens: init has run for a project that had a key, and reported it
C4_Witness ==
  /\ last.cmd = "init" /\ last.stage = "exists"
  /\ keysFile.projects[projectConfig.name].present

\* unbundle or pull run without --force (the first-generation pull has no
\* such flag)
RunsWithoutForce ==
  \/ last'.cmd = "unbundle" /\ \E flags \in UnbundleFlags : unbundle(FALSE, flags)
  \/ last'.cmd = "pull" /\ \E project \in ProjectFlags, wire \in Wire :
                             pull(FALSE, project, last'.version, wire)
  \/ last'.cmd = "pull-v1" /\ \E project \in ProjectFlags, wire \in Wire : pullV1(project, wire)

\* C5: unbundle or pull whose output path exists, run without --force,
\* returns an error and leaves the bytes of that path unchanged.  (Stated as
\* "the step ends in an error with the bytes untouched, or it is no such
\* run", which is the same implication.)
C5_OverwriteGuard ==
  [][ \/ last'.err /\ files'[EnvPath].content = files[EnvPath].content
      \/ ~(files[EnvPath].exists /\ RunsWithoutForce) ]_vars

\* C6: after every successful unbundle or pull the plaintext output file
\* has permission bits 0600, also when --force overwrote a file that had
\* wider ones.
C6_OutputOwnerOnly ==
  (last.cmd \in {"unbundle", "pull"} /\ ~last.err) =>
    (files[EnvPath].exists /\ files[EnvPath].perm = Perm0600)

\* the bytes are an envelope sealed with this secret
Sealed(content, secret) == content.kind = "age" /\ content.pass = secret /\ secret # <<>>

\* the scrypt passphrase an unbundle run with these flags decrypts with
UnbundleSecret(flags) ==
  IF determineUnbundleMode(flags.pass, flags.passFile, flags.passMode) = "passphrase"
  THEN GetPassphrase(files, flags.pass, flags.passFile, flags.typed)
  ELSE LET key == GetProjectKey(keysFile, LoadProjectConfig(projectConfig).name)
           keyBytes == KeyFromBase64(key.val.keyB64)
       IN  IF key.ok /\ keyBytes.ok THEN Ok(EncodeToString(keyBytes.val)) ELSE Err

\* a run of unbundle whose secret does not open the bundle (wrong passphrase,
\* other key, damaged bytes), or of pull when the blob arrives damaged or
\* the data key is another 32-byte key
FailingDecryption ==
  \/ /\ last'.cmd = "unbundle"
     /\ \E flags \in UnbundleFlags :
          /\ LET secret == UnbundleSecret(flags)
             IN  ~secret.ok \/ ~Sealed(files[DefaultBundlePath].content, secret.val)
          /\ \E force \in BOOLEAN : unbundle(force, flags)
  \/ /\ last'.cmd = "pull"
     /\ \E force \in BOOLEAN, project \in ProjectFlags, wire \in {"garbled", "otherkey"} :
          pull(force, project, last'.version, wire)

\* C7: when decryption fails in unbundle or pull, the command returns an
\* error and the output path is neither created nor modified.  (Stated as
\* "the step ends in an error with all files untouched, or it is no failing
\* decryption", which is the same implication.)
C7_DecryptFailureWritesNothing ==
  [][ (last'.err /\ files' = files) \/ ~FailingDecryption ]_vars

\* C7 happens: unbundle of an intact envelope failed to decrypt and no
\* output file exists
C7_Witness ==
  /\ last.cmd = "unbundle" /\ last.err /\ last.stage = "decrypt"
  /\ files[DefaultBundlePath].content.kind = "age"
  /\ ~files[EnvPath].exists

RoundTripCallDone == call.fn \in {"passphrase", "key"} /\ call.done

C8_CommandRoundTrip ==
  [][ /\ (last'.cmd = "bundle" /\ last'.stage = "done") =>
           files'[DefaultBundlePath].content.data = files[EnvPath].content.data
      /\ (last'.cmd = "unbundle" /\ last'.stage = "done") =>
           files'[EnvPath].content = Raw(files[DefaultBundlePath].content.data) ]_vars

\* C9: pull --version N writes exactly the bytes of version N of the
\* project, even when newer versions exist.
C9_PullExplicitVersion ==
  (last.cmd = "pull" /\ ~last.err /\ last.version > 0) =>
    \A p \in cloud.projects :
      last.version <= Len(Versions(p)) =>
        files[EnvPath].content = Raw(Versions(p)[last.version].blob.data)

\* C10: pull without --version writes the bytes of the push with the
\* highest version number.
C10_PullLatest ==
  (last.cmd = "pull" /\ ~last.err /\ last.version = 0) =>
    \A p \in cloud.projects :
      /\ Len(Versions(p)) > 0
      /\ files[EnvPath].exists
      /\ files[EnvPath].content = Raw(Versions(p)[Len(Versions(p))].blob.data)

\* C10 happens: pull without --version succeeded while the project held an
\* older version with other bytes
C10_Witness ==
  /\ last.cmd = "pull" /\ ~last.err /\ last.version = 0
  /\ \E p \in cloud.projects :
       /\ Len(Versions(p)) >= 2
       /\ Versions(p)[1].blob.data # Versions(p)[Len(Versions(p))].blob.data

\* the keys of the key cache, as stored
CachedKeys == { keysFile.projects[n].keyB64 : n \in { m \in ProjectNames : keysFile.projects[m].present } }

PushPrefixes ==
  { <<>>, << "ticket" >>, << "ticket", "upload" >>, << "ticket", "upload", "finalize" >> }

\* C12: one bundle --push issues ticket, upload and finalize at most once
\* each and in that order, each only after the earlier ones succeeded; a
\* failing invocation commits no version, and a version is committed only
\* by an invocation that issued all three and succeeded.
C12_PushStepOrder ==
  [][ last'.cmd = "bundle" =>
        /\ last'.reqs \in PushPrefixes
        /\ last'.err => cloud' = cloud
        /\ (last'.err /\ last'.reqs # <<>>) => last'.stage = last'.reqs[Len(last'.reqs)]
        /\ cloud' # cloud => (~last'.err /\ last'.reqs = << "ticket", "upload", "finalize" >>) ]_vars

\* C12 happens: a push got its ticket, failed in the upload and stopped
C12_Witness ==
  /\ last.cmd = "bundle" /\ last.err /\ last.stage = "upload"
  /\ last.reqs = << "ticket", "upload" >>

\* an invocation of a paid command: bundle --push, pull, share or audit
PaidRun ==
  \/ last'.cmd \in {"pull", "pull-v1", "share", "audit"}
  \/ /\ last'.cmd = "bundle"
     /\ \E force \in BOOLEAN, flags \in BundleFlags, project \in ProjectFlags :
          bundle(force, flags, TRUE, project, DefaultBundlePath)

\* C13: a paid command run without a stored token returns an error, issues
\* no request and writes no file.  (Stated as "the step ends in an error
\* with no request and the files untouched, or it is no such run".)
C13_PaidNeedsToken ==
  [][ \/ last'.err /\ last'.reqs = <<>> /\ files' = files
      \/ ~(token = "" /\ PaidRun) ]_vars

\* an invocation of pull or of bundle --push
PullOrPushRun ==
  \/ last'.cmd \in {"pull", "pull-v1"}
  \/ /\ last'.cmd = "bundle"
     /\ \E force \in BOOLEAN, flags \in BundleFlags, project \in ProjectFlags :
          bundle(force, flags, TRUE, project, DefaultBundlePath)

\* C14: with a stored token that the control plane rejects, pull and
\* bundle --push return an error and write no file.  (Stated as "the step
\* ends in an error with the files untouched, or it is no such run".)
C14_RejectedTokenFails ==
  [][ \/ last'.err /\ files' = files
      \/ ~(token # "" /\ ~ValidToken(token) /\ PullOrPushRun) ]_vars

\* the entry of the key cache for a project name, before the step
CachedKey(name) ==
  IF keysFile.exists /\ keysFile.projects[name].present THEN keysFile.projects[name].keyB64 ELSE <<>>

C16_RunWritesNoFile ==
  [][ last'.cmd \in {"run", "runner"} => files' = files ]_vars

\* an invocation of bundle, unbundle or run that resolves to Local mode
LocalModeRun ==
  \/ /\ last'.cmd = "bundle"
     /\ \E force \in BOOLEAN, project \in ProjectFlags : bundle(force, NoPassFlags, FALSE, project, DefaultBundlePath)
  \/ last'.cmd = "unbundle" /\ \E force \in BOOLEAN : unbundle(force, NoPassFlags)
  \/ last'.cmd = "run" /\ \E child \in ChildOutcomes : run(NoPassFlags, child)

\* the key cache has no key for the project name of this directory
NoCachedKey ==
  LET name == LoadProjectConfig(projectConfig).name
  IN  ~(keysFile.exists /\ keysFile.projects[name].present)

\* C18: in Local mode without a cached key for the project name, bundle,
\* unbundle and run return an error, write no file and execute no child
\* command.  (Stated as "the step ends in an error before any write or
\* child, or it is no such run".)
C18_NoKeyNoFallback ==
  [][ \/ last'.err /\ files' = files /\ last'.stage \notin {"done", "pushed", "child"}
      \/ ~(NoCachedKey /\ LocalModeRun) ]_vars

\* C18 happens: run found an intact bundle but no key for the project
C18_Witness ==
  /\ last.cmd = "run" /\ last.err /\ last.stage = "secret"
  /\ files[DefaultBundlePath].content.kind = "age"
  /\ ~keysFile.projects[projectConfig.name].present

\* C17: a successful bundle --push commits a version whose blob is the input
\* file's bytes sealed with exactly the data key sent in finalize, and a
\* successful pull, which received the blob and the key as stored, writes
\* exactly the bytes sealed in the project's latest version: push of x
\* followed by pull writes x.
C17_PushPullRoundTrip ==
  [][ /\ (last'.cmd = "bundle" /\ last'.stage = "pushed") =>
           \E p \in CloudProjectIDs :
             /\ Len(cloud'.versions[p]) = Len(cloud.versions[p]) + 1
             /\ LET v == cloud'.versions[p][Len(cloud'.versions[p])]
                IN  v.blob = Envelope(v.key, files[EnvPath].content.data)
      /\ (last'.cmd = "pull" /\ ~last'.err) =>
           \E p \in cloud.projects :
             /\ Len(cloud.versions[p]) > 0
             /\ Sealed(cloud.versions[p][Len(cloud.versions[p])].blob,
                       cloud.versions[p][Len(cloud.versions[p])].key)
             /\ files'[EnvPath].content.data =
                  cloud.versions[p][Len(cloud.versions[p])].blob.data ]_vars

\* C17 happens: the bytes P2 were pushed and a later pull wrote them back
C17_Witness ==
  /\ last.cmd = "pull" /\ ~last.err
  /\ files[EnvPath].content = Raw(P2)
  /\ \E p \in cloud.projects :
       /\ Len(Versions(p)) > 0
       /\ Versions(p)[Len(Versions(p))].blob.data = P2

\* the file at the cache path, and whether every invocation reported success
CacheFile == cache.inode[cache.dir.keys]
AllSaved == \A p \in Procs : cache.proc[p].ret = "ok"

\* C19: nothing orders the load-mutate-save cycles of two invocations: when
\* both have reported success the cache file is the document one of them
\* wrote, with that invocation's key, and holds the other one's key only if
\* that document was loaded after the other one's save (last writer wins).
C19_LastWriterWins ==
  AllSaved =>
    \E p \in Procs :
      /\ cache.dir.keys # 0
      /\ CacheFile = Doc(cache.proc[p].saving)
      /\ CacheFile.doc[SaverName(p)] = SaverKey(p)

\* C19 happens: both invocations reported success and the cache file holds
\* the key of only one of them
C19_Witness ==
  /\ AllSaved
  /\ CacheFile.kind = "doc"
  /\ \E p \in Procs, q \in Procs :
       /\ CacheFile.doc[SaverName(p)] = SaverKey(p)
       /\ ~CacheFile.doc[SaverName(q)].present

\* C20: the file at the cache path always holds one complete document, and
\* every save that reports success has just renamed its own complete
\* document into place.
C20_AtomicPersistence ==
  [][ /\ cache'.dir.keys # 0 => cache'.inode[cache'.dir.keys].kind = "doc"
      /\ \A p \in Procs :
           (cache.proc[p].ret = "" /\ cache'.proc[p].ret = "ok") =>
             cache'.inode[cache'.dir.keys] = Doc(cache.proc[p].saving) ]_vars

\* the cache file holds the key that invocation p generated for the
\* directory's project
HoldsKeyOf(p) ==
  /\ cache.dir.keys # 0
  /\ CacheFile.kind = "doc"
  /\ CacheFile.doc[DirName] = SaverKey(p)

\* C21: once the key cache holds a key for the project, no step of an init
\* invocation replaces it with a different key, however concurrent init
\* invocations for that project interleave.
C21_InitNeverReplaces ==
  [][ \A p \in Procs : \A q \in Procs \ {p} :
        HoldsKeyOf(p) => ~HoldsKeyOf(q)' ]_vars

\* init has succeeded in this directory: the key cache holds a key it stored
InitDone == keysFile.exists /\ \E n \in ProjectNames : keysFile.projects[n].present

\* C22: after init has succeeded, Local-mode bundle, unbundle and run keep
\* finding the project key, whatever login and project create commands ran
\* in between: no such run fails in the key lookup.  (Stated as "the step
\* does not fail in the lookup, or it is no such run".)
C22_KeyStaysFound ==
  [][ \/ ~(last'.err /\ last'.stage = "secret")
      \/ ~(InitDone /\ LocalModeRun) ]_vars

\* bundle run without --force, to either output path
BundleWithoutForce(out) ==
  /\ last'.cmd = "bundle"
  /\ \E flags \in BundleFlags, push \in BOOLEAN, project \in ProjectFlags :
       bundle(FALSE, flags, push, project, out)

\* C23: bundle without --force never overwrites an existing output file, in
\* any mode, the local copy of a cloud push to another --out path included.
\* (Stated as "the file is untouched, or it did not exist, or it is no such
\* run".)
C23_BundleOverwriteGuard ==
  [][ \A out \in {DefaultBundlePath, CopyPath} :
        \/ files'[out] = files[out]
        \/ ~files[out].exists
        \/ ~BundleWithoutForce(out) ]_vars

\* the project id a command resolves from --project and the config is empty
\* or the sentinel
Unresolved(project) ==
  LET id == IF project = "" THEN LoadProjectConfig(projectConfig).id ELSE project
  IN  id \in {"", "local"}

\* bundle --push with an unresolved project id
UnresolvedPush ==
  /\ last'.cmd = "bundle"
  /\ \E force \in BOOLEAN, flags \in BundleFlags, project \in ProjectFlags :
       Unresolved(project) /\ bundle(force, flags, TRUE, project, DefaultBundlePath)

\* C24: bundle --push with an empty or sentinel project id returns an error
\* no later than the project check, before a data key is generated, and
\* issues no request.  (Stated as "the step ends in such an error, or it is
\* no such run".)
C24_PushNeedsProject ==
  [][ \/ /\ last'.err /\ last'.stage \in {"input", "token", "project"}
         /\ last'.reqs = <<>> /\ cloud' = cloud
      \/ ~UnresolvedPush ]_vars

\* pull with an unresolved project id
UnresolvedPull ==
  /\ last'.cmd = "pull"
  /\ \E force \in BOOLEAN, project \in ProjectFlags, wire \in Wire :
       Unresolved(project) /\ pull(force, project, last'.version, wire)

\* C25: pull with an empty or sentinel project id returns an error and
\* issues no request.  (Stated as "the step ends in an error without a
\* request, or it is no such run".)
C25_PullNeedsProject ==
  [][ \/ last'.err /\ last'.reqs = <<>>
      \/ ~UnresolvedPull ]_vars

\* the scrypt passphrase a run with these flags decrypts with
RunSecret(flags) ==
  IF determineRunMode(flags.pass, flags.passFile, flags.passMode) = "passphrase"
  THEN GetPassphrase(files, flags.pass, flags.passFile, flags.typed)
  ELSE LET key == GetProjectKey(keysFile, LoadProjectConfig(projectConfig).name)
           keyBytes == KeyFromBase64(key.val.keyB64)
       IN  IF key.ok /\ keyBytes.ok THEN Ok(EncodeToString(keyBytes.val)) ELSE Err

\* a run whose bundle cannot be read, whose key or passphrase cannot be
\* obtained, or whose secret does not open the bundle
FailingRun ==
  /\ last'.cmd = "run"
  /\ \E flags \in UnbundleFlags :
       /\ LET secret == RunSecret(flags)
          IN  \/ ~files[DefaultBundlePath].exists
              \/ IsEmptyContent(files[DefaultBundlePath].content)
              \/ ~secret.ok
              \/ ~Sealed(files[DefaultBundlePath].content, secret.val)
       /\ \E child \in ChildOutcomes : run(flags, child)

\* C26: run starts the child command only after the bundle was read and
\* decrypted in the resolved mode: when reading, key lookup, passphrase
\* retrieval or decryption fails, the command returns an error and no child
\* is started.  (Stated as "the step ends in an error before the child, or
\* it is no failing run".)
C26_ChildOnlyAfterDecrypt ==
  [][ \/ last'.err /\ last'.stage \in {"input", "secret", "decrypt"}
      \/ ~FailingRun ]_vars

\* C26 happens: run read an intact envelope sealed with another secret,
\* decryption failed and no child was started
C26_Witness ==
  /\ last.cmd = "run" /\ last.err /\ last.stage = "decrypt"
  /\ files[DefaultBundlePath].content.kind = "age"

\* the commands that only read the project config
ConfigReaders == {"init", "bundle", "unbundle", "run", "pull", "key-export"}

\* C27: as long as no project create has succeeded the project config's
\* project id is the sentinel "local"; login changes only the mode field;
\* init, bundle, unbundle, run, pull and key export leave an existing
\* project config unchanged.
C27_ProjectIdSentinel ==
  [][ /\ (cloud'.projects = {} /\ projectConfig'.exists) => projectConfig'.id = "local"
      /\ last'.cmd = "login" =>
           \/ projectConfig' = projectConfig
           \/ /\ ~last'.err
              /\ projectConfig' = [LoadProjectConfig(projectConfig) EXCEPT !.mode = projectConfig'.mode]
      /\ (last'.cmd \in ConfigReaders /\ projectConfig.exists) => projectConfig' = projectConfig
    ]_vars

\* C27 happens: login has switched the config of a directory without a
\* cloud project to cloud mode and the project id is still the sentinel
C27_Witness ==
  /\ last.cmd = "login" /\ ~last.err
  /\ cloud.projects = {}
  /\ projectConfig.mode = "cloud" /\ projectConfig.id = "local"

\* the bytes of the input file of the bundle command
InputBytes == files[EnvPath].content.data

\* base64 of the 32-byte keys that are no cached project key
FreshKeySecrets ==
  { EncodeToString(k) : k \in KeyPool } \
    { keysFile.projects[n].keyB64 : n \in ProjectNames }

\* C28: in a cloud push the blob store is sent only the input sealed with
\* the data key, the same key that finalize sends; no request carries the
\* input's bytes unsealed.
C28_OnlyCiphertextLeaves ==
  (last.cmd = "bundle" /\ last.sent # <<>>) =>
    \A i \in 1..Len(last.sent) :
      LET r == last.sent[i]
      IN  /\ r.req = last.reqs[i]
          /\ r.req = "upload" =>
                /\ r.blob.kind = "age" /\ r.blob.data = InputBytes
                /\ r.blob.pass \in FreshKeySecrets
                /\ \A j \in 1..Len(last.sent) :
                     last.sent[j].req = "finalize" => last.sent[j].key = r.blob.pass
          /\ r.req # "upload" => r.blob = NoBody.blob
          /\ r.key # InputBytes

\* C28 happens: a push uploaded the sealed input and failed in finalize
C28_Witness ==
  /\ last.cmd = "bundle" /\ last.err /\ last.stage = "finalize"
  /\ Len(last.sent) = 3
  /\ last.sent[2].blob.kind = "age" /\ last.sent[2].blob.data = InputBytes

\* C29: the raw-key path is the passphrase path applied to the key in
\* base64: what EncryptWithKey sealed with a 32-byte key opens with
\* DecryptWithPassphrase and the key in base64, what EncryptWithPassphrase
\* sealed with the key in base64 opens with DecryptWithKey, and a key of
\* another length is rejected by EncryptWithKey and by DecryptWithKey.
C29_KeyPathIsPassphrasePath ==
  call.done =>
    /\ (call.fn \in {"key-passphrase", "passphrase-key"} /\ Len(call.secret) = KeyLen) =>
          call.enc.ok /\ call.dec = Ok(call.data)
    /\ (call.fn = "key-passphrase" /\ Len(call.secret) # KeyLen) => ~call.enc.ok
    /\ (call.fn = "passphrase-key" /\ Len(call.secret) # KeyLen) =>
          call.enc.ok /\ ~call.dec.ok

\* C29 happens: an envelope sealed on the passphrase path with a key in
\* base64 was opened with DecryptWithKey
C29_Witness ==
  /\ call.done /\ call.fn = "passphrase-key"
  /\ Len(call.secret) = KeyLen /\ call.data = P1
  /\ call.enc.ok /\ call.enc.val.pass = EncodeToString(call.secret)
  /\ call.dec = Ok(P1)

\* a line of the text that defines a variable: not blank, no comment, with "="
DefinesVariable(line) == line # <<>> /\ line[1] # Hash /\ Contains(line, Equals)

\* the lines of a text that define a variable, without surrounding space
VariableLines(data) ==
  LET lines == SplitLines(data)
  IN  SelectSeq([i \in 1..Len(lines) |-> TrimSpace(lines[i])], DefinesVariable)

\* NAME=VALUE with the double quotes around VALUE removed
Unquoted(line) ==
  LET v == SplitN2(line)[2]
  IN  IF Len(v) >= 2 /\ v[1] = Quote /\ v[Len(v)] = Quote
      THEN SplitN2(line)[1] \o << Equals >> \o SubSeq(v, 2, Len(v) - 1)
      ELSE line

\* C30: environment parsing for run skips blank lines and lines starting
\* with #, yields one variable for every other line that contains =, and
\* hands a value wrapped in quotes to the child without the quotes.
C30_EnvParsing ==
  (call.done /\ call.fn \in {"parseEnvFile", "Runner.parseEnvFile"}) =>
    LET lines == VariableLines(call.data)
    IN  call.env = [i \in 1..Len(lines) |-> Unquoted(lines[i])]

====
